---- MODULE Spec2Model ----
(***************************************************************************)
(* binu: locate a byte pattern in files (grep), substitute matches         *)
(* (replace) and splice bytes at an offset (insert).                       *)
(*                                                                         *)
(* The model follows src/src/util.rs, grep.rs, replace.rs and insert.rs.   *)
(* One command runs from "idle" to "done"; every call of Match::next,      *)
(* every iteration of the rewrite loop and every open/create is a step.    *)
(* A file is a record [exists, data]; a handle reads the data its path     *)
(* holds at the moment of the read, so a destination that is also the      *)
(* source is truncated under the reader, as on a POSIX file system.        *)
(***************************************************************************)
EXTENDS Integers, Sequences, FiniteSets, TLC

\* ------------------------------------------------------------------ bounds
MaxFileLen == 4
MaxPatLen == 2
MaxRepLen == 2
MaxNth == 1

\* Match::next on an empty pattern yields 0, 1, 2, ... without end; the model
\* stops following it here (always beyond any offset a non-empty pattern reaches).
ScanCap == MaxFileLen + 2

Bytes == {0, 1}
SeqsUpTo(n) == UNION {[1..k -> Bytes] : k \in 0..n}

Paths == {"f1", "f2", "f3"}
NoFile == [exists |-> FALSE, data |-> <<>>]
FileOf(d) == [exists |-> TRUE, data |-> d]

\* f1: the input, any content; f2: a path that does not exist; f3: an existing
\* file with content of its own.
OldData == <<1, 1, 0>>
FileLists == {<<"f1">>, <<"f1", "f3">>, <<"f2", "f1">>, <<"f3", "f2", "f1">>}

VARIABLES
    fs,             \* the file system: Paths -> [exists, data]
    fs0,            \* the file system when the command started (history)
    cmd,            \* the arguments of the running command
    pc,             \* where the command is
    result,         \* "none", "Ok", "NotFound", "UnexpectedEof" or "Panic"
    match_offset,   \* Match.offset
    found_matches,  \* the offsets collected from the matcher
    nth_left,       \* elements Iterator::nth still has to discard
    nth_file,       \* OpenFiles.nth
    ret,            \* grep's result vector
    handles,        \* the paths of the file handles open now, in opening order
    to_fill,        \* replace: number of fill bytes (negative: wrapped below 0)
    last_offset,    \* replace: input bytes consumed so far
    idx,            \* replace: position of the for loop in found_matches
    in_pos,         \* cursor of the input handle of the rewrite / splice
    count,          \* the usize replace returned
    printed,        \* the N replace_command printed, -1 when nothing
    warned,         \* replace_command wrote its warning to stderr
    applied         \* history: the offsets whose replacement was written

vars == <<fs, fs0, cmd, pc, result, match_offset, found_matches, nth_left,
          nth_file, ret, handles, to_fill, last_offset, idx, in_pos, count,
          printed, warned, applied>>

NoCmd == [op |-> "none"]

Init ==
    /\ \E d \in SeqsUpTo(MaxFileLen) :
          fs = [p \in Paths |-> CASE p = "f1" -> FileOf(d)
                                  [] p = "f2" -> NoFile
                                  [] OTHER -> FileOf(OldData)]
    /\ fs0 = fs
    /\ cmd = NoCmd
    /\ pc = "idle"
    /\ result = "none"
    /\ match_offset = 0
    /\ found_matches = <<>>
    /\ nth_left = 0
    /\ nth_file = 0
    /\ ret = <<>>
    /\ handles = <<>>
    /\ to_fill = 0
    /\ last_offset = 0
    /\ idx = 0
    /\ in_pos = 0
    /\ count = 0
    /\ printed = -1
    /\ warned = FALSE
    /\ applied = <<>>

\* ------------------------------------------------------------ byte source
\* Read::read_exact of n bytes at cursor pos: Ok iff the bytes are there; an
\* empty buffer is filled at once, wherever the cursor is.
ReadExactOk(data, pos, n) == n = 0 \/ pos + n <= Len(data)

\* The n bytes read_exact delivers at cursor pos.
Window(data, pos, n) == SubSeq(data, pos + 1, pos + n)

\* Read::read_to_end at cursor pos: everything from pos to end-of-file.
ReadToEnd(data, pos) == SubSeq(data, pos + 1, Len(data))

\* (variant: the handle is kept open)
DropHandleLeak(hs, p) == hs

\* Dropping one handle on path p (the most recently opened one).
RECURSIVE DropHandle(_, _)
DropHandle(hs, p) ==
    IF hs = <<>> THEN <<>>
    ELSE IF hs[Len(hs)] = p THEN SubSeq(hs, 1, Len(hs) - 1)
    ELSE Append(DropHandle(SubSeq(hs, 1, Len(hs) - 1), p), hs[Len(hs)])

\* --------------------------------------------------------------- matcher
\* One call of Match::next from cursor off: the while loop reads a window at
\* every offset until one equals the pattern (Some) or read_exact fails (None).
\* (variant: the cursor moves past the whole match, so overlaps are lost)
RECURSIVE MatchNextDisjoint(_, _, _)
MatchNextDisjoint(data, pattern, off) ==
    IF ~ReadExactOk(data, off, Len(pattern))
    THEN [some |-> FALSE, value |-> 0, offset |-> off]
    ELSE IF Window(data, off, Len(pattern)) = pattern
         THEN [some |-> TRUE, value |-> off, offset |-> off + Len(pattern)]
         ELSE MatchNextDisjoint(data, pattern, off + 1)

RECURSIVE MatchNext(_, _, _)
MatchNext(data, pattern, off) ==
    IF ~ReadExactOk(data, off, Len(pattern))
    THEN [some |-> FALSE, value |-> 0, offset |-> off]
    ELSE IF Window(data, off, Len(pattern)) = pattern
         THEN [some |-> TRUE, value |-> off, offset |-> off + 1]
         ELSE MatchNext(data, pattern, off + 1)

\* ------------------------------------------------------------------ grep
GrepArgs(pattern, filenames) ==
    [op |-> "grep", pattern |-> pattern, filenames |-> filenames]

\* grep(pattern, filenames): open_files() builds the iterator, ret is empty.
GrepStart ==
    /\ pc = "idle"
    /\ \E pattern \in SeqsUpTo(MaxPatLen), filenames \in FileLists :
          cmd' = GrepArgs(pattern, filenames)
    /\ pc' = "grep_open"
    /\ nth_file' = 0
    /\ ret' = <<>>
    /\ UNCHANGED <<fs, fs0, result, match_offset, found_matches, nth_left,
                   handles, to_fill, last_offset, idx, in_pos, count, printed,
                   warned, applied>>

\* The for loop asks OpenFiles::next for the next file. A file that cannot be
\* opened makes .ok() yield None, which ends the loop like the end of the list.
GrepOpenNext ==
    /\ pc = "grep_open"
    /\ IF nth_file < Len(cmd.filenames) /\ fs[cmd.filenames[nth_file + 1]].exists
       THEN /\ nth_file' = nth_file + 1
            /\ handles' = Append(handles, cmd.filenames[nth_file + 1])
            /\ ret' = Append(ret, [path |-> cmd.filenames[nth_file + 1],
                                   offsets |-> <<>>])
            /\ match_offset' = 0
            /\ found_matches' = <<>>
            /\ pc' = "grep_scan"
            /\ UNCHANGED result
       ELSE /\ nth_file' = IF nth_file < Len(cmd.filenames)
                           THEN nth_file + 1 ELSE nth_file
            /\ result' = "Ok"
            /\ pc' = "done"
            /\ UNCHANGED <<handles, ret, match_offset, found_matches>>
    /\ UNCHANGED <<fs, fs0, cmd, nth_left, to_fill, last_offset, idx, in_pos,
                   count, printed, warned, applied>>

\* collect() calls Match::next once more. On None the offsets are pushed into
\* the last entry of ret and the file goes out of scope.
GrepMatchNext ==
    /\ pc = "grep_scan"
    /\ match_offset < ScanCap
    /\ LET path == cmd.filenames[nth_file]
           r == MatchNext(fs[path].data, cmd.pattern, match_offset)
       IN  /\ match_offset' = r.offset
           /\ IF r.some
              THEN /\ found_matches' = Append(found_matches, r.value)
                   /\ UNCHANGED <<ret, handles, pc>>
              ELSE /\ ret' = [ret EXCEPT ![Len(ret)].offsets = found_matches]
                   /\ handles' = DropHandle(handles, path)
                   /\ pc' = "grep_open"
                   /\ UNCHANGED found_matches
    /\ UNCHANGED <<fs, fs0, cmd, result, nth_left, nth_file, to_fill,
                   last_offset, idx, in_pos, count, printed, warned, applied>>

\* --------------------------------------------------------------- replace
ReplaceArgs(to_replace, replace_with, input_filename, output_filename, nth, replace_all, fill_byte, allow_length_change) ==
    [op |-> "replace", to_replace |-> to_replace, replace_with |-> replace_with,
     input_filename |-> input_filename, output_filename |-> output_filename,
     nth |-> nth, replace_all |-> replace_all, fill_byte |-> fill_byte,
     allow_length_change |-> allow_length_change]

\* The ReplaceConfig values tried: --replace-all (nth unused, default 0) or
\* --nth k; --allow-length-change (fill byte unused, default 0) or a fill byte.
Selections == {[replace_all |-> TRUE, nth |-> 0]}
              \cup {[replace_all |-> FALSE, nth |-> k] : k \in 0..MaxNth}
Fills == {[allow_length_change |-> TRUE, fill_byte |-> 0]}
         \cup {[allow_length_change |-> FALSE, fill_byte |-> b] : b \in Bytes}

\* replace_command warns (and goes on) when the replacement is too long.
TooLong(c) ==
    ~c.allow_length_change /\ Len(c.replace_with) > Len(c.to_replace)

\* replace_command calls replace, which opens the input and builds the matcher.
ReplaceStart ==
    /\ pc = "idle"
    /\ \E to_replace \in SeqsUpTo(MaxPatLen), replace_with \in SeqsUpTo(MaxRepLen),
          input_filename \in {"f1", "f2"}, output_filename \in Paths,
          sel \in Selections, fill \in Fills :
          cmd' = ReplaceArgs(to_replace, replace_with, input_filename,
                             output_filename,
                             sel.nth, sel.replace_all, fill.fill_byte,
                             fill.allow_length_change)
    /\ warned' = TooLong(cmd')
    /\ IF fs[cmd'.input_filename].exists
       THEN /\ handles' = <<cmd'.input_filename>>
            /\ match_offset' = 0
            /\ found_matches' = <<>>
            /\ nth_left' = cmd'.nth
            /\ pc' = "rep_scan"
            /\ UNCHANGED result
       ELSE /\ result' = "NotFound"
            /\ pc' = "done"
            /\ UNCHANGED <<handles, match_offset, found_matches, nth_left>>
    /\ UNCHANGED <<fs, fs0, nth_file, ret, to_fill, last_offset, idx, in_pos,
                   count, printed, applied>>

\* (variant: nth is ignored and the first match is taken)
DiscardsNone(left) == FALSE

\* Iterator::nth(n): the match is discarded while matches are left to skip.
Discards(left) == left > 0

\* The offsets replace acts on, one call of Match::next at a time:
\* matches_iter.nth(cfg.nth) discards cfg.nth matches and keeps the next one
\* (none left: return Ok(0), which replace_command prints); collect() keeps all.
ReplaceMatchNext ==
    /\ pc = "rep_scan"
    /\ match_offset < ScanCap
    /\ LET r == MatchNext(fs[cmd.input_filename].data, cmd.to_replace, match_offset)
       IN  /\ match_offset' = r.offset
           /\ IF cmd.replace_all
              THEN /\ found_matches' = IF r.some THEN Append(found_matches, r.value)
                                       ELSE found_matches
                   /\ pc' = IF r.some THEN "rep_scan" ELSE "rep_prepare"
                   /\ UNCHANGED <<nth_left, result, count, printed, handles>>
              ELSE IF r.some
                   THEN /\ nth_left' = IF Discards(nth_left) THEN nth_left - 1 ELSE 0
                        /\ found_matches' = IF Discards(nth_left) THEN <<>>
                                             ELSE <<r.value>>
                        /\ pc' = IF Discards(nth_left) THEN "rep_scan"
                                  ELSE "rep_prepare"
                        /\ UNCHANGED <<result, count, printed, handles>>
                   ELSE /\ result' = "Ok"
                        /\ count' = 0
                        /\ printed' = 0
                        /\ handles' = <<>>
                        /\ pc' = "done"
                        /\ UNCHANGED <<nth_left, found_matches>>
    /\ UNCHANGED <<fs, fs0, cmd, nth_file, ret, to_fill, last_offset, idx,
                   in_pos, warned, applied>>

\* to_fill = to_replace.len() - replace_with.len() in usize. Below zero the
\* subtraction panics in a build with overflow checks and wraps in one without;
\* a negative value here stands for the wrapped one, 2^64 + to_fill.
\* (variant: no padding at all)
ToFillNone(c) == 0

ToFill(c) ==
    IF c.allow_length_change THEN 0
    ELSE Len(c.to_replace) - Len(c.replace_with)

\* File::create: the path now names an empty file (created or truncated).
Create(files, path) == [files EXCEPT ![path] = FileOf(<<>>)]

\* Write::write_all on the output handle: the bytes are appended.
WriteAll(files, path, bytes) ==
    [files EXCEPT ![path].data = files[path].data \o bytes]

\* The fill count is computed, the input reopened, the output created.
ReplacePrepare ==
    /\ pc = "rep_prepare"
    /\ \/ /\ ToFill(cmd) < 0
          /\ result' = "Panic"
          /\ handles' = <<>>
          /\ pc' = "done"
          /\ UNCHANGED <<fs, to_fill, last_offset, idx, in_pos>>
       \/ /\ to_fill' = ToFill(cmd)
          /\ fs' = Create(fs, cmd.output_filename)
          /\ handles' = handles \o <<cmd.input_filename, cmd.output_filename>>
          /\ last_offset' = 0
          /\ idx' = 0
          /\ in_pos' = 0
          /\ pc' = "rep_loop"
          /\ UNCHANGED result
    /\ UNCHANGED <<fs0, cmd, match_offset, found_matches, nth_left, nth_file,
                   ret, count, printed, warned, applied>>

\* (variant: an offset inside the bytes already replaced is not skipped)
SkipsNever(last, offset) == FALSE

\* (variant: an offset right at the end of the replaced bytes is skipped too)
SkipsAdjacent(last, offset) == last >= offset

\* if last_offset > offset { continue; }
Skips(last, offset) == last > offset

\* (variant: the padding is the default byte, not the configured fill byte)
SubstituteZeroPad(c, fill_count) ==
    c.replace_with \o [i \in 1..fill_count |-> 0]

\* The bytes one iteration writes after the copied prefix.
Substitute(c, fill_count) ==
    c.replace_with \o [i \in 1..fill_count |-> c.fill_byte]

\* One iteration of the for loop over found_matches.
ReplaceLoop ==
    /\ pc = "rep_loop"
    /\ idx < Len(found_matches)
    /\ LET offset == found_matches[idx + 1]
           n == offset - last_offset
           src == fs[cmd.input_filename].data
           buf == Window(src, in_pos, n)
       IN  IF Skips(last_offset, offset)
           THEN /\ idx' = idx + 1
                /\ UNCHANGED <<fs, result, handles, pc, last_offset, in_pos,
                               applied>>
           ELSE IF ~ReadExactOk(src, in_pos, n)
           THEN /\ result' = "UnexpectedEof"
                /\ handles' = <<>>
                /\ pc' = "done"
                /\ UNCHANGED <<fs, idx, last_offset, in_pos, applied>>
           ELSE IF to_fill < 0
           THEN \* vec![fill_byte; to_fill] panics: capacity overflow
                /\ fs' = WriteAll(fs, cmd.output_filename, buf \o cmd.replace_with)
                /\ in_pos' = in_pos + n + Len(cmd.to_replace)
                /\ result' = "Panic"
                /\ handles' = <<>>
                /\ pc' = "done"
                /\ UNCHANGED <<idx, last_offset, applied>>
           ELSE /\ fs' = WriteAll(fs, cmd.output_filename,
                                  buf \o Substitute(cmd, to_fill))
                /\ in_pos' = in_pos + n + Len(cmd.to_replace)
                /\ last_offset' = last_offset + Len(buf) + Len(cmd.to_replace)
                /\ idx' = idx + 1
                /\ applied' = Append(applied, offset)
                /\ UNCHANGED <<result, handles, pc>>
    /\ UNCHANGED <<fs0, cmd, match_offset, found_matches, nth_left, nth_file,
                   ret, to_fill, count, printed, warned>>

\* The usize replace returns: Ok(found_matches.len()).
ReturnedCount(found) == Len(found)

\* After the loop: the rest of the input is copied, replace returns
\* Ok(found_matches.len()) and replace_command prints that number.
ReplaceTail ==
    /\ pc = "rep_loop"
    /\ idx = Len(found_matches)
    /\ fs' = WriteAll(fs, cmd.output_filename,
                      ReadToEnd(fs[cmd.input_filename].data, in_pos))
    /\ result' = "Ok"
    /\ count' = ReturnedCount(found_matches)
    /\ printed' = count'
    /\ handles' = <<>>
    /\ pc' = "done"
    /\ UNCHANGED <<fs0, cmd, match_offset, found_matches, nth_left, nth_file,
                   ret, to_fill, last_offset, idx, in_pos, warned, applied>>

NextReplace ==
    ReplaceStart \/ ReplaceMatchNext \/ ReplacePrepare \/ ReplaceLoop \/ ReplaceTail

\* ---------------------------------------------------------------- insert
InsertArgs(to_insert, offset, input_filename, output_filename) ==
    [op |-> "insert", to_insert |-> to_insert, offset |-> offset,
     input_filename |-> input_filename, output_filename |-> output_filename]

\* insert_command calls insert: the input is opened, then the output created.
InsertStart ==
    /\ pc = "idle"
    /\ \E to_insert \in SeqsUpTo(MaxRepLen), offset \in 0..(MaxFileLen + 1),
          input_filename \in {"f1", "f2"}, output_filename \in Paths :
          cmd' = InsertArgs(to_insert, offset, input_filename, output_filename)
    /\ IF fs[cmd'.input_filename].exists
       THEN /\ fs' = Create(fs, cmd'.output_filename)
            /\ handles' = <<cmd'.input_filename, cmd'.output_filename>>
            /\ in_pos' = 0
            /\ pc' = "ins_copy"
            /\ UNCHANGED result
       ELSE /\ result' = "NotFound"
            /\ pc' = "done"
            /\ UNCHANGED <<fs, handles, in_pos>>
    /\ UNCHANGED <<fs0, match_offset, found_matches, nth_left, nth_file, ret,
                   to_fill, last_offset, idx, count, printed, warned, applied>>

\* (variant: an offset beyond the end of the input is clamped to its length)
InsertCopyClamped ==
    /\ pc = "ins_copy"
    /\ LET src == fs[cmd.input_filename].data
           n == IF in_pos + cmd.offset <= Len(src) THEN cmd.offset
                ELSE Len(src) - in_pos
       IN  /\ fs' = WriteAll(fs, cmd.output_filename,
                             Window(src, in_pos, n) \o cmd.to_insert)
           /\ in_pos' = in_pos + n
           /\ pc' = "ins_tail"
           /\ UNCHANGED <<result, handles>>
    /\ UNCHANGED <<fs0, cmd, match_offset, found_matches, nth_left, nth_file,
                   ret, to_fill, last_offset, idx, count, printed, warned,
                   applied>>

\* read_exact of the first `offset` bytes, then the prefix and the payload are
\* written; too few bytes and insert returns the error.
InsertCopy ==
    /\ pc = "ins_copy"
    /\ LET src == fs[cmd.input_filename].data
       IN  IF ReadExactOk(src, in_pos, cmd.offset)
           THEN /\ fs' = WriteAll(fs, cmd.output_filename,
                                  Window(src, in_pos, cmd.offset) \o cmd.to_insert)
                /\ in_pos' = in_pos + cmd.offset
                /\ pc' = "ins_tail"
                /\ UNCHANGED <<result, handles>>
           ELSE /\ result' = "UnexpectedEof"
                /\ handles' = <<>>
                /\ pc' = "done"
                /\ UNCHANGED <<fs, in_pos>>
    /\ UNCHANGED <<fs0, cmd, match_offset, found_matches, nth_left, nth_file,
                   ret, to_fill, last_offset, idx, count, printed, warned,
                   applied>>

\* read_to_end, the remainder is written, insert returns Ok(()).
InsertTail ==
    /\ pc = "ins_tail"
    /\ fs' = WriteAll(fs, cmd.output_filename,
                      ReadToEnd(fs[cmd.input_filename].data, in_pos))
    /\ result' = "Ok"
    /\ handles' = <<>>
    /\ pc' = "done"
    /\ UNCHANGED <<fs0, cmd, match_offset, found_matches, nth_left, nth_file,
                   ret, to_fill, last_offset, idx, in_pos, count, printed,
                   warned, applied>>

NextInsert == InsertStart \/ InsertCopy \/ InsertTail

\* ---------------------------------------------------------- specifications
NextGrep == GrepStart \/ GrepOpenNext \/ GrepMatchNext

Next == NextGrep \/ NextReplace \/ NextInsert

\* A command runs to its end once started (single-threaded, blocking).
SpecGrep == Init /\ [][NextGrep]_vars /\ WF_vars(NextGrep)
SpecReplace == Init /\ [][NextReplace]_vars
SpecInsert == Init /\ [][NextInsert]_vars
Spec == Init /\ [][Next]_vars

\* ------------------------------------------------------- properties: terms
\* pattern occurs verbatim at offset o: data[o .. o+len(pattern)) = pattern.
IsMatchAt(data, pattern, o) ==
    /\ o + Len(pattern) <= Len(data)
    /\ \A j \in 1..Len(pattern) : data[o + j] = pattern[j]

MatchSet(data, pattern) == {o \in 0..Len(data) : IsMatchAt(data, pattern, o)}

RECURSIVE Ascending(_)
Ascending(S) ==
    IF S = {} THEN <<>>
    ELSE LET m == CHOOSE x \in S : \A y \in S : x <= y
         IN  <<m>> \o Ascending(S \ {m})

\* The raw (overlap-permitting) matches m_0 < m_1 < ...
RawMatches(data, pattern) == Ascending(MatchSet(data, pattern))

StrictlyIncreasing(s) == \A i \in 1..(Len(s) - 1) : s[i] < s[i + 1]
Elems(s) == {s[i] : i \in 1..Len(s)}

Done(op) == pc = "done" /\ cmd.op = op

\* The input of a replace or insert as it was when the command started, and
\* what the output path holds now.
Input == fs0[cmd.input_filename].data
Output == fs[cmd.output_filename].data

\* ---------------------------------------------------------------------- C1
\* C1: for every file and non-empty pattern the matcher, started at offset 0
\* and collected by grep, terminates, and what it yields is exactly the
\* offsets where the pattern occurs, each once, in strictly increasing order,
\* overlapping occurrences and one ending at end-of-file included. While the
\* scan runs, what was yielded so far is a strictly increasing run of matches.
C1_MatcherExact ==
    /\ [](cmd.op = "grep" /\ Len(cmd.pattern) > 0 =>
            /\ pc = "grep_scan" =>
                  /\ StrictlyIncreasing(found_matches)
                  /\ Elems(found_matches)
                        \subseteq MatchSet(fs0[cmd.filenames[nth_file]].data,
                                           cmd.pattern)
            /\ pc = "done" =>
                  \A i \in 1..Len(ret) :
                     ret[i].offsets = RawMatches(fs0[ret[i].path].data, cmd.pattern))
    /\ (cmd.op = "grep" /\ Len(cmd.pattern) > 0) ~> (pc = "done" /\ result = "Ok")

\* grep of <<0,0>> in <<0,0,0,0>> has returned [0,1,2]: overlapping matches,
\* the last one ending at end-of-file.
C1_Witness ==
    /\ Done("grep")
    /\ cmd.pattern = <<0, 0>>
    /\ fs0["f1"].data = <<0, 0, 0, 0>>
    /\ Len(ret) >= 1
    /\ ret[1].path = "f1"
    /\ ret[1].offsets = <<0, 1, 2>>

\* ------------------------------------------------ replace: common premises
\* A finished replace of an input file that exists, with a non-empty pattern,
\* a well-formed policy (the replacement fits unless the length may change)
\* and a destination that is a file of its own. The destination that is the
\* source is C10's subject.
ReplaceRan ==
    /\ Done("replace")
    /\ fs0[cmd.input_filename].exists
    /\ Len(cmd.to_replace) > 0
    /\ ~TooLong(cmd)
    /\ cmd.output_filename # cmd.input_filename

Repeat(b, n) == [i \in 1..n |-> b]

\* ---------------------------------------------------------------------- C2
\* C2: round trip. replace_all with the length fixed and the replacement equal
\* to the pattern, for any fill byte, writes an output equal to the input byte
\* for byte, also when the occurrences of the pattern overlap.
C2_RoundTrip ==
    (ReplaceRan /\ cmd.replace_all /\ ~cmd.allow_length_change
        /\ cmd.replace_with = cmd.to_replace)
    => (result = "Ok" /\ fs[cmd.output_filename] = FileOf(Input))

\* <<0,0>> replaced by itself in <<0,0,0,1>>: the matches 0 and 1 overlap,
\* the second was skipped, and the fill byte is not the default one.
C2_Witness ==
    /\ ReplaceRan /\ cmd.replace_all /\ ~cmd.allow_length_change
    /\ cmd.replace_with = cmd.to_replace
    /\ cmd.to_replace = <<0, 0>>
    /\ cmd.fill_byte = 1
    /\ Input = <<0, 0, 0, 1>>
    /\ found_matches = <<0, 1>>
    /\ applied = <<0>>
    /\ result = "Ok"

\* ---------------------------------------------------------------------- C3
\* C3: length of the output of a replace that selected at least one match.
\* Length fixed and the replacement no longer than the pattern: the output is
\* as long as the input. Length may change: the output is as long as the input
\* plus k * (len(replacement) - len(pattern)), k the number of replacements
\* written (a match skipped as overlapping is not one).
C3_Length ==
    (ReplaceRan /\ found_matches # <<>>)
    => /\ result = "Ok"
       /\ fs[cmd.output_filename].exists
       /\ Len(Output) =
             IF cmd.allow_length_change
             THEN Len(Input) + Len(applied)
                                 * (Len(cmd.replace_with) - Len(cmd.to_replace))
             ELSE Len(Input)

\* Length-changing replace_all of <<0,0>> by <<1>> in <<0,0,0>>: two matches
\* found, one written, the output one byte shorter.
C3_Witness ==
    /\ ReplaceRan /\ cmd.replace_all /\ cmd.allow_length_change
    /\ cmd.to_replace = <<0, 0>> /\ cmd.replace_with = <<1>>
    /\ Input = <<0, 0, 0>>
    /\ Len(found_matches) = 2 /\ Len(applied) = 1
    /\ Output = <<1, 0>>

\* ---------------------------------------------------------------------- C4
\* C4: the count replace returns, and replace_command prints, is the number of
\* offsets whose replacement was written: the selected offsets minus those
\* skipped as overlapping an applied one.
C4_CountIsApplied ==
    (ReplaceRan /\ result = "Ok")
    => (count = Len(applied) /\ printed = Len(applied))

\* ---------------------------------------------------------------------- C5
\* C5: nth selection. Without replace_all and with nth = k, on a file with at
\* least k+1 raw matches m_0 < m_1 < ..., only the region at m_k is rewritten:
\* the input before m_k and the input from m_k + len(pattern) on are in the
\* output unchanged, around the substitute and nothing else. With a
\* replacement as long as the pattern, the replacement is found at m_k in the
\* output and every other original match that does not overlap m_k is still a
\* match of the pattern.
C5_NthOnly ==
    LET raw == RawMatches(Input, cmd.to_replace)
        plen == Len(cmd.to_replace)
    IN  (ReplaceRan /\ ~cmd.replace_all /\ Len(raw) >= cmd.nth + 1)
        => LET mk == raw[cmd.nth + 1]
               tail == Len(Input) - (mk + plen)
           IN  /\ result = "Ok"
               /\ applied = <<mk>>
               /\ Len(Output) >= mk + tail
               /\ SubSeq(Output, 1, mk) = SubSeq(Input, 1, mk)
               /\ SubSeq(Output, Len(Output) - tail + 1, Len(Output))
                     = SubSeq(Input, mk + plen + 1, Len(Input))
               /\ Len(Output) - mk - tail
                     = Len(cmd.replace_with)
                       + (IF cmd.allow_length_change THEN 0
                          ELSE plen - Len(cmd.replace_with))
               /\ Len(cmd.replace_with) = plen =>
                     /\ IsMatchAt(Output, cmd.replace_with, mk)
                     /\ \A m \in Elems(raw) :
                           (m + plen <= mk \/ mk + plen <= m)
                              => IsMatchAt(Output, cmd.to_replace, m)

\* nth = 1 on <<0,1,0,0>> with pattern <<0>>: the matches are 0, 2, 3 and only
\* the one at 2 was replaced by <<1>>.
C5_Witness ==
    /\ ReplaceRan /\ ~cmd.replace_all /\ cmd.nth = 1
    /\ cmd.to_replace = <<0>> /\ cmd.replace_with = <<1>>
    /\ Input = <<0, 1, 0, 0>>
    /\ applied = <<2>>
    /\ Output = <<0, 1, 1, 0>>

\* ---------------------------------------------------------------------- C6
\* C6: fill-byte padding. With the length fixed and the replacement no longer
\* than the pattern, at every applied offset o the output holds, at the same
\* offset o, the replacement followed by exactly len(pattern) -
\* len(replacement) copies of the fill byte.
C6_FillPadding ==
    (ReplaceRan /\ ~cmd.allow_length_change)
    => /\ result = "Ok"
       /\ \A o \in Elems(applied) :
             /\ o + Len(cmd.to_replace) <= Len(Output)
             /\ Window(Output, o, Len(cmd.to_replace))
                   = cmd.replace_with
                     \o Repeat(cmd.fill_byte,
                               Len(cmd.to_replace) - Len(cmd.replace_with))

\* <<0,0>> replaced everywhere by <<0>> with fill byte 1 in <<1,0,0>>: the
\* output holds <<0,1>> at offset 1.
C6_Witness ==
    /\ ReplaceRan /\ ~cmd.allow_length_change /\ cmd.replace_all
    /\ cmd.to_replace = <<0, 0>> /\ cmd.replace_with = <<0>>
    /\ cmd.fill_byte = 1
    /\ Input = <<1, 0, 0>>
    /\ applied = <<1>>
    /\ Output = <<1, 0, 1>>

\* ---------------------------------------------------------------------- C7
\* C7: a replacement longer than the pattern with the length fixed is refused:
\* the operation returns an error, the destination is neither written nor
\* created nor truncated, and no fill count below zero is ever computed; for
\* every input and selection, also when nothing matches.
C7_Refused ==
    (cmd.op = "replace" /\ TooLong(cmd))
    => /\ fs = fs0
       /\ to_fill >= 0
       /\ pc = "done" => result \notin {"Ok", "Panic"}

\* ---------------------------------------------------------------------- C8
\* C8: splice. With the input present and a destination of its own, insert
\* succeeds exactly when offset <= len(input); then the output is the input up
\* to the offset, the payload, and the rest of the input, so it is len(payload)
\* longer and the payload is found in it at the offset. Beyond the end of the
\* input the result is an error: the offset is not clamped.
C8_Splice ==
    (Done("insert") /\ fs0[cmd.input_filename].exists
        /\ cmd.output_filename # cmd.input_filename)
    => /\ (result = "Ok") <=> (cmd.offset <= Len(Input))
       /\ result = "Ok" =>
             /\ Output = SubSeq(Input, 1, cmd.offset) \o cmd.to_insert
                            \o SubSeq(Input, cmd.offset + 1, Len(Input))
             /\ Len(Output) = Len(Input) + Len(cmd.to_insert)
             /\ IsMatchAt(Output, cmd.to_insert, cmd.offset)
       /\ cmd.offset > Len(Input) => result = "UnexpectedEof"

\* <<1,0>> inserted at offset 1 of <<0,1>> gave <<0,1,0,1>>.
C8_Witness ==
    /\ Done("insert") /\ result = "Ok"
    /\ cmd.input_filename = "f1" /\ cmd.output_filename = "f3"
    /\ cmd.to_insert = <<1, 0>> /\ cmd.offset = 1
    /\ Input = <<0, 1>>
    /\ Output = <<0, 1, 0, 1>>

\* ---------------------------------------------------------------------- C9
\* C9: atomicity. What the output path names changes only once replace or
\* insert has produced the whole output without error: when the command ended
\* in a failure, the path holds exactly what it held before (it was neither
\* created empty, nor truncated, nor left with a prefix of the output).
C9_Atomic ==
    (pc = "done" /\ cmd.op \in {"replace", "insert"} /\ result # "Ok")
    => fs[cmd.output_filename] = fs0[cmd.output_filename]

\* --------------------------------------------------------------------- C10
\* The byte stream the rewrite of section 4.3 yields from `data` for the
\* selected offsets: the output of a call whose destination is another file.
RECURSIVE Rewritten(_, _, _, _, _)
Rewritten(data, selected, cursor, plen, substitute) ==
    IF selected = <<>> THEN SubSeq(data, cursor + 1, Len(data))
    ELSE IF Head(selected) < cursor
         THEN Rewritten(data, Tail(selected), cursor, plen, substitute)
         ELSE SubSeq(data, cursor + 1, Head(selected)) \o substitute
                 \o Rewritten(data, Tail(selected), Head(selected) + plen,
                              plen, substitute)

Spliced(data, offset, payload) ==
    SubSeq(data, 1, offset) \o payload \o SubSeq(data, offset + 1, Len(data))

\* C10: same path. When the output path is the input path, the path holds in
\* the end what the same call writes to a destination of its own: the source
\* bytes are not lost to the creation of the destination.
C10_SamePath ==
    (pc = "done" /\ cmd.op \in {"replace", "insert"}
        /\ cmd.output_filename = cmd.input_filename
        /\ fs0[cmd.input_filename].exists)
    => /\ (cmd.op = "insert" /\ cmd.offset <= Len(Input)) =>
             /\ result = "Ok"
             /\ Output = Spliced(Input, cmd.offset, cmd.to_insert)
       /\ (cmd.op = "replace" /\ Len(cmd.to_replace) > 0 /\ ~TooLong(cmd)
              /\ found_matches # <<>>) =>
             /\ result = "Ok"
             /\ Output = Rewritten(Input, found_matches, 0, Len(cmd.to_replace),
                                   Substitute(cmd, ToFill(cmd)))

\* --------------------------------------------------------------------- C11
\* The paths of grep's result entries, in order.
RetPaths == [i \in 1..Len(ret) |-> ret[i].path]

AllOpen(filenames) == \A i \in 1..Len(filenames) : fs0[filenames[i]].exists

\* C11: locate over several files. If a file of the list cannot be opened,
\* grep returns an error: it never returns Ok with the results of a part of
\* the files. When every file opens, the result has exactly one entry per
\* file, in argument order, files without a match included. (Stated of
\* non-empty patterns; the empty one is C12's.)
C11_OpenFailureHalts ==
    (Done("grep") /\ Len(cmd.pattern) > 0)
    => /\ ~AllOpen(cmd.filenames) => result # "Ok"
       /\ AllOpen(cmd.filenames) =>
             (result = "Ok" /\ RetPaths = cmd.filenames)

\* --------------------------------------------------------------------- C12
\* The search pattern of the running grep or replace is empty (and its files
\* are there to be scanned).
EmptyPattern ==
    \/ cmd.op = "grep" /\ Len(cmd.pattern) = 0 /\ AllOpen(cmd.filenames)
    \/ cmd.op = "replace" /\ Len(cmd.to_replace) = 0
          /\ fs0[cmd.input_filename].exists

\* C12: an empty search pattern is rejected with an error before any scan:
\* the matcher never runs on it (its cursor never moves, it yields nothing,
\* so no endless run 0, 1, 2, ...), and the command ends, with an error.
C12_EmptyPatternRejected ==
    EmptyPattern
    => /\ match_offset = 0
       /\ found_matches = <<>>
       /\ pc = "done" => result \notin {"none", "Ok"}

\* --------------------------------------------------------------------- C13
\* The input around the applied regions, each region replaced by `substitute`:
\* data[0..a_1), substitute, data[a_1+plen..a_2), substitute, ...
RECURSIVE Pieces(_, _, _, _, _)
Pieces(data, regions, from, plen, substitute) ==
    IF regions = <<>> THEN SubSeq(data, from + 1, Len(data))
    ELSE SubSeq(data, from + 1, Head(regions)) \o substitute
            \o Pieces(data, Tail(regions), Head(regions) + plen, plen, substitute)

\* C13: overlap resolution of replace_all. Walking the raw matches upwards,
\* a match is applied exactly when it does not start inside the bytes of an
\* applied one before it (o' < o + len(pattern) is skipped, the next
\* o' >= o + len(pattern) is applied). So no input byte lies in two applied
\* regions, and the input outside the applied regions is in the output once
\* and in its order, between the substitutes.
C13_OverlapResolution ==
    LET plen == Len(cmd.to_replace)
        pad == IF cmd.allow_length_change THEN 0
               ELSE plen - Len(cmd.replace_with)
    IN  (ReplaceRan /\ cmd.replace_all)
        => /\ result = "Ok"
           /\ found_matches = RawMatches(Input, cmd.to_replace)
           /\ StrictlyIncreasing(applied)
           /\ \A o \in Elems(found_matches) :
                 o \in Elems(applied)
                    <=> (\A a \in Elems(applied) : a < o => a + plen <= o)
           /\ \A i \in 1..(Len(applied) - 1) : applied[i] + plen <= applied[i + 1]
           /\ Output = Pieces(Input, applied, 0, plen,
                              cmd.replace_with \o Repeat(cmd.fill_byte, pad))

\* <<0,0>> replaced everywhere in <<0,0,0,0>>: of the matches 0, 1, 2 the one
\* at 1 was skipped and the one at 2, right after the first region, applied.
C13_Witness ==
    /\ ReplaceRan /\ cmd.replace_all
    /\ cmd.to_replace = <<0, 0>> /\ cmd.replace_with = <<1>>
    /\ cmd.allow_length_change
    /\ Input = <<0, 0, 0, 0>>
    /\ found_matches = <<0, 1, 2>>
    /\ applied = <<0, 2>>
    /\ Output = <<1, 1>>

\* --------------------------------------------------------------------- C14
\* C14: missing nth match. Without replace_all and with nth = k on a file with
\* at most k raw matches, replace is no error: it returns 0, and the output is
\* written as a byte-for-byte copy of the input, as replace_all writes it for
\* a file without a match.
C14_MissingNthCopies ==
    (ReplaceRan /\ ~cmd.replace_all
        /\ Len(RawMatches(Input, cmd.to_replace)) <= cmd.nth)
    => /\ result = "Ok"
       /\ count = 0
       /\ fs[cmd.output_filename] = FileOf(Input)

\* --------------------------------------------------------------------- C15
\* C15: file handles of grep. At most one input file is open at any moment:
\* while a file is scanned it is the only one open, and none is open when the
\* next file is asked for or when grep has returned, also when the scan of a
\* file or the list ended early.
C15_OneHandle ==
    cmd.op = "grep"
    => /\ Len(handles) <= 1
       /\ pc = "grep_scan" => handles = <<cmd.filenames[nth_file]>>
       /\ pc \in {"grep_open", "done"} => handles = <<>>

\* The second file of the list is open, alone, after the first was scanned.
C15_Witness ==
    /\ cmd.op = "grep" /\ pc = "grep_scan"
    /\ cmd.filenames = <<"f1", "f3">>
    /\ nth_file = 2
    /\ Len(ret) = 2
    /\ handles = <<"f3">>

====
